---- MODULE Spec2Model ----
(***************************************************************************)
(* The schema catalog of app/models.py (users, topic suggestions,          *)
(* projects, scripts, audio files, subscriptions, usage logs) as a state   *)
(* machine over the eight tables' rows.  The rows are what the table       *)
(* classes declare; the operations are what the declarations admit at the  *)
(* persistence boundary: validate-on-construct of the transfer shapes,     *)
(* default-fill, and the unique / foreign-key constraints of the columns.  *)
(* Timestamps (datetime.utcnow) are not read by any property below and    *)
(* are left out of the rows; a Decimal is kept as its decimal text.        *)
(***************************************************************************)
EXTENDS Naturals, Sequences, FiniteSets, TLC

VARIABLES users, topic_suggestions, projects, scripts, audio_files,
          subscriptions, usage_logs, next_id, last

vars == <<users, topic_suggestions, projects, scripts, audio_files,
          subscriptions, usage_logs, next_id, last>>

tables == <<users, topic_suggestions, projects, scripts, audio_files,
            subscriptions, usage_logs>>

(***************************************************************************)
(* Bounds of the model.                                                    *)
(***************************************************************************)
\* rows ever inserted, all tables together (primary keys are never reused)
MaxRows == 4

(***************************************************************************)
(* Optional[T]: None, or a value.                                          *)
(***************************************************************************)
None == <<>>

Some(v) == <<v>>

(***************************************************************************)
(* The enumerations.                                                       *)
(***************************************************************************)
UserTier == {"free", "premium", "professional"}

ProjectStatus == {"draft", "script_ready", "audio_generated", "enhanced", "published"}

ScriptStatus == {"draft", "ai_generated", "user_edited", "final"}

AudioStatus == {"pending", "processing", "completed", "failed"}

VoiceType == {"male_professional", "female_professional", "male_casual",
              "female_casual", "narrator", "custom"}

(***************************************************************************)
(* Rows and primary keys.                                                  *)
(***************************************************************************)
Ids(table) == {r.id : r \in table}

Row(table, id) == CHOOSE r \in table : r.id = id

RowsInserted == next_id.users + next_id.topic_suggestions + next_id.projects
                + next_id.scripts + next_id.audio_files
                + next_id.subscriptions + next_id.usage_logs - 7

\* the outcome of the last operation: its name, its result and the primary
\* key it acted on (0 when none)
Outcome(op, result, id) == [op |-> op, result |-> result, id |-> id]

(***************************************************************************)
(* The email pattern of User.email and UserCreate.email:                   *)
(*   ^[a-zA-Z0-9_.+-]+@[a-zA-Z0-9-]+\.[a-zA-Z0-9-.]+$                      *)
(* An email is a sequence of characters.  AlNum is the part of [a-zA-Z0-9] *)
(* in the model's alphabet.                                                *)
(***************************************************************************)
AlNum == {"a", "b", "c", "d", "A", "Z", "0", "9"}

LocalChars == AlNum \cup {"_", ".", "+", "-"}

DomainChars == AlNum \cup {"-"}

TldChars == AlNum \cup {"-", "."}

EmailRegex(e) ==
    \E i \in 1..Len(e), j \in 1..Len(e) :
        /\ e[i] = "@"
        /\ e[j] = "."
        /\ i > 1
        /\ j > i + 1
        /\ j < Len(e)
        /\ \A k \in 1..(i - 1) : e[k] \in LocalChars
        /\ \A k \in (i + 1)..(j - 1) : e[k] \in DomainChars
        /\ \A k \in (j + 1)..Len(e) : e[k] \in TldChars

(***************************************************************************)
(* Transfer shapes.  A request is a function from the field names it       *)
(* carries to their values; constructing the shape validates the fields,   *)
(* requires the fields that have no default and fills the declared         *)
(* default of every other absent field.  Fields the shape does not         *)
(* declare are ignored.                                                    *)
(***************************************************************************)
Has(input, f) == f \in DOMAIN input

\* max_length=n of field f, when the request carries f
MaxLenOk(input, f, n) == Has(input, f) => Len(input[f]) <= n

(***************************************************************************)
(* User, UserCreate, UserUpdate.                                           *)
(***************************************************************************)
UserCreateRequired == {"email", "username", "full_name", "password"}

UserCreateValid(c) ==
    /\ UserCreateRequired \subseteq DOMAIN c
    /\ Len(c.email) <= 255
    /\ EmailRegex(c.email)
    /\ Len(c.username) <= 50
    /\ Len(c.full_name) <= 100
    /\ Len(c.password) >= 8
    /\ Len(c.password) <= 100

\* the declared defaults of the User table's columns
UserDefaults ==
    [tier |-> "free", is_active |-> TRUE, last_login |-> None,
     monthly_projects_created |-> 0,
     default_voice_type |-> "male_professional", preferences |-> {}]

\* a User row: the given columns, every other column at its default
NewUser(id, c) ==
    [id |-> id, email |-> c.email, username |-> c.username,
     full_name |-> c.full_name, password_hash |-> c.password_hash,
     tier |-> UserDefaults.tier, is_active |-> UserDefaults.is_active,
     last_login |-> UserDefaults.last_login,
     monthly_projects_created |-> UserDefaults.monthly_projects_created,
     default_voice_type |-> UserDefaults.default_voice_type,
     preferences |-> UserDefaults.preferences]

\* a users table whose username column is not unique
UserUniqueEmailOnly(u) ==
    \A r \in users : r.email # u.email

\* unique=True on users.email and on users.username
UserUnique(u) ==
    \A r \in users : r.email # u.email /\ r.username # u.username

\* insert of a User row: the unique indexes decide
InsertUser(op, u) ==
    IF UserUnique(u)
    THEN /\ users' = users \cup {u}
         /\ next_id' = [next_id EXCEPT !.users = @ + 1]
         /\ last' = Outcome(op, "ok", u.id)
         /\ UNCHANGED <<topic_suggestions, projects, scripts, audio_files,
                        subscriptions, usage_logs>>
    ELSE /\ last' = Outcome(op, "integrity_error", 0)
         /\ UNCHANGED <<tables, next_id>>

\* UserCreate carries the password, User its digest
UserFromCreate(c) ==
    [email |-> c.email, username |-> c.username, full_name |-> c.full_name,
     password_hash |-> <<"hash", c.password>>]

\* a user registers through the UserCreate shape
CreateUser(c) ==
    /\ RowsInserted < MaxRows
    /\ IF UserCreateValid(c)
       THEN InsertUser("CreateUser",
                       NewUser(next_id.users, UserFromCreate(c)))
       ELSE /\ last' = Outcome("CreateUser", "validation_error", 0)
            /\ UNCHANGED <<tables, next_id>>

\* a User entity is constructed directly, User(email=..., ...), and added:
\* a table class (table=True) runs no field validation on construction, so
\* max_length and regex of its fields are not applied; its defaults are
ConstructUser(c) ==
    /\ RowsInserted < MaxRows
    /\ InsertUser("ConstructUser", NewUser(next_id.users, c))

(***************************************************************************)
(* Update shapes.  Every field of an update shape is Optional with the     *)
(* declared default None; the shape object holds, for each of its fields,  *)
(* the value the request carries or that default.                          *)
(***************************************************************************)
ShapeObject(defaults, input) ==
    [f \in DOMAIN defaults |->
        IF Has(input, f) THEN Some(input[f]) ELSE defaults[f]]

\* applying an update shape to a stored row writes the fields of the shape
\* that hold a value and leaves the row's other fields alone; a nullable
\* column keeps the Optional as it is
ApplyPatch(row, obj, nullable) ==
    [f \in DOMAIN row |->
        IF f \in DOMAIN obj /\ obj[f] # None
        THEN IF f \in nullable THEN obj[f] ELSE obj[f][1]
        ELSE row[f]]

UserUpdateFields == {"full_name", "default_voice_type", "preferences"}

UserUpdateDefaults == [f \in UserUpdateFields |-> None]

UserUpdateValid(p) ==
    /\ MaxLenOk(p, "full_name", 100)
    /\ Has(p, "default_voice_type") => p.default_voice_type \in VoiceType

UpdateUser(id, p) ==
    IF id \notin Ids(users)
    THEN /\ last' = Outcome("UpdateUser", "not_found", 0)
         /\ UNCHANGED <<tables, next_id>>
    ELSE IF ~UserUpdateValid(p)
    THEN /\ last' = Outcome("UpdateUser", "validation_error", id)
         /\ UNCHANGED <<tables, next_id>>
    ELSE /\ users' = (users \ {Row(users, id)}) \cup
                     {ApplyPatch(Row(users, id),
                                 ShapeObject(UserUpdateDefaults, p),
                                 {})}
         /\ last' = Outcome("UpdateUser", "ok", id)
         /\ UNCHANGED <<topic_suggestions, projects, scripts, audio_files,
                        subscriptions, usage_logs, next_id>>

(***************************************************************************)
(* TopicSuggestion, TopicSuggestionCreate.                                 *)
(***************************************************************************)
TopicSuggestionCreateValid(c) ==
    /\ {"title", "description", "category"} \subseteq DOMAIN c
    /\ Len(c.title) <= 200
    /\ Len(c.description) <= 1000
    /\ Len(c.category) <= 100

NewTopicSuggestion(id, c) ==
    [id |-> id, title |-> c.title, description |-> c.description,
     category |-> c.category,
     tags |-> IF Has(c, "tags") THEN c.tags ELSE <<>>,
     ai_generated |-> IF Has(c, "ai_generated") THEN c.ai_generated ELSE TRUE]

CreateTopicSuggestion(c) ==
    /\ RowsInserted < MaxRows
    /\ IF TopicSuggestionCreateValid(c)
       THEN /\ topic_suggestions' = topic_suggestions \cup
                    {NewTopicSuggestion(next_id.topic_suggestions, c)}
            /\ next_id' = [next_id EXCEPT !.topic_suggestions = @ + 1]
            /\ last' = Outcome("CreateTopicSuggestion", "ok",
                               next_id.topic_suggestions)
            /\ UNCHANGED <<users, projects, scripts, audio_files,
                           subscriptions, usage_logs>>
       ELSE /\ last' = Outcome("CreateTopicSuggestion", "validation_error", 0)
            /\ UNCHANGED <<tables, next_id>>

(***************************************************************************)
(* Project, ProjectCreate, ProjectUpdate.                                  *)
(***************************************************************************)
ProjectCreateValid(c) ==
    /\ {"title", "category"} \subseteq DOMAIN c
    /\ Len(c.title) <= 200
    /\ MaxLenOk(c, "description", 2000)
    /\ Len(c.category) <= 100
    /\ Has(c, "voice_type") => c.voice_type \in VoiceType

\* the defaults of ProjectCreate's optional fields
ProjectCreateDefaults ==
    [description |-> "", tags |-> <<>>, topic_suggestion_id |-> None,
     target_duration_minutes |-> None, voice_type |-> "male_professional"]

\* a Project table whose status defaults to published
ProjectDefaultsPublished ==
    [status |-> "published", published_at |-> None, custom_voice_settings |-> {}]

\* the defaults of the Project table's columns that ProjectCreate lacks
ProjectDefaults ==
    [status |-> "draft", published_at |-> None, custom_voice_settings |-> {}]

\* the Project row of a validated ProjectCreate, owned by user uid
NewProject(id, uid, c) ==
    [id |-> id, title |-> c.title,
     description |-> IF Has(c, "description") THEN c.description
                     ELSE ProjectCreateDefaults.description,
     status |-> ProjectDefaults.status,
     category |-> c.category,
     tags |-> IF Has(c, "tags") THEN c.tags ELSE ProjectCreateDefaults.tags,
     user_id |-> uid,
     topic_suggestion_id |-> IF Has(c, "topic_suggestion_id")
                             THEN Some(c.topic_suggestion_id)
                             ELSE ProjectCreateDefaults.topic_suggestion_id,
     published_at |-> ProjectDefaults.published_at,
     target_duration_minutes |-> IF Has(c, "target_duration_minutes")
                                 THEN Some(c.target_duration_minutes)
                                 ELSE ProjectCreateDefaults.target_duration_minutes,
     voice_type |-> IF Has(c, "voice_type") THEN c.voice_type
                    ELSE ProjectCreateDefaults.voice_type,
     custom_voice_settings |-> ProjectDefaults.custom_voice_settings]

\* a nullable foreign key resolves when it is None or names a stored row
RefOk(ref, table) == ref = None \/ ref[1] \in Ids(table)

\* foreign keys of a projects row: users.id, topic_suggestions.id
ProjectForeignKeys(p) ==
    /\ p.user_id \in Ids(users)
    /\ RefOk(p.topic_suggestion_id, topic_suggestions)

CreateProject(uid, c) ==
    /\ RowsInserted < MaxRows
    /\ IF ~ProjectCreateValid(c)
       THEN /\ last' = Outcome("CreateProject", "validation_error", 0)
            /\ UNCHANGED <<tables, next_id>>
       ELSE IF ~ProjectForeignKeys(NewProject(next_id.projects, uid, c))
       THEN /\ last' = Outcome("CreateProject", "integrity_error", 0)
            /\ UNCHANGED <<tables, next_id>>
       ELSE /\ projects' = projects \cup {NewProject(next_id.projects, uid, c)}
            /\ next_id' = [next_id EXCEPT !.projects = @ + 1]
            /\ last' = Outcome("CreateProject", "ok", next_id.projects)
            /\ UNCHANGED <<users, topic_suggestions, scripts, audio_files,
                           subscriptions, usage_logs>>

ProjectUpdateFields == {"title", "description", "status", "category", "tags",
                        "target_duration_minutes", "voice_type"}

\* an update shape whose status defaults to draft, as the table's does
ProjectUpdateDefaultsStatusDraft ==
    [f \in ProjectUpdateFields |->
        IF f = "status" THEN Some("draft") ELSE None]

ProjectUpdateDefaults == [f \in ProjectUpdateFields |-> None]

\* a validation that refuses to reopen a project as a draft
ProjectUpdateValidNoReopen(p) ==
    /\ MaxLenOk(p, "title", 200)
    /\ MaxLenOk(p, "description", 2000)
    /\ Has(p, "status") => p.status \in ProjectStatus \ {"draft"}
    /\ MaxLenOk(p, "category", 100)
    /\ Has(p, "voice_type") => p.voice_type \in VoiceType

ProjectUpdateValid(p) ==
    /\ MaxLenOk(p, "title", 200)
    /\ MaxLenOk(p, "description", 2000)
    /\ Has(p, "status") => p.status \in ProjectStatus
    /\ MaxLenOk(p, "category", 100)
    /\ Has(p, "voice_type") => p.voice_type \in VoiceType

UpdateProject(id, p) ==
    IF id \notin Ids(projects)
    THEN /\ last' = Outcome("UpdateProject", "not_found", 0)
         /\ UNCHANGED <<tables, next_id>>
    ELSE IF ~ProjectUpdateValid(p)
    THEN /\ last' = Outcome("UpdateProject", "validation_error", id)
         /\ UNCHANGED <<tables, next_id>>
    ELSE /\ projects' = (projects \ {Row(projects, id)}) \cup
                        {ApplyPatch(Row(projects, id),
                                    ShapeObject(ProjectUpdateDefaults, p),
                                    {"target_duration_minutes"})}
         /\ last' = Outcome("UpdateProject", "ok", id)
         /\ UNCHANGED <<users, topic_suggestions, scripts, audio_files,
                        subscriptions, usage_logs, next_id>>

(***************************************************************************)
(* Script, ScriptCreate, ScriptUpdate.                                     *)
(***************************************************************************)
ScriptCreateValid(c) ==
    /\ {"title", "content", "project_id"} \subseteq DOMAIN c
    /\ Len(c.title) <= 200
    /\ Len(c.content) <= 50000
    /\ MaxLenOk(c, "ai_prompt", 2000)

\* the defaults of the Script table's columns
ScriptDefaults ==
    [status |-> "draft", version |-> 1, is_current |-> TRUE,
     ai_generated |-> FALSE, ai_prompt |-> None, ai_model_used |-> None,
     estimated_duration_minutes |-> None, word_count |-> 0, sections |-> <<>>]

NewScript(id, c) ==
    [id |-> id, title |-> c.title, content |-> c.content,
     status |-> ScriptDefaults.status, version |-> ScriptDefaults.version,
     is_current |-> ScriptDefaults.is_current,
     ai_generated |-> ScriptDefaults.ai_generated,
     ai_prompt |-> IF Has(c, "ai_prompt") THEN Some(c.ai_prompt)
                   ELSE ScriptDefaults.ai_prompt,
     ai_model_used |-> ScriptDefaults.ai_model_used,
     estimated_duration_minutes |-> ScriptDefaults.estimated_duration_minutes,
     word_count |-> ScriptDefaults.word_count,
     sections |-> ScriptDefaults.sections,
     project_id |-> c.project_id]

\* a scripts table that keeps one current script per project
ScriptInsertOneCurrent(s) ==
    {IF r.project_id = s.project_id THEN [r EXCEPT !.is_current = FALSE] ELSE r :
        r \in scripts} \cup {s}

\* the scripts table after the insert of s: no column of scripts is unique
\* beside the primary key, and the stored rows are not touched
ScriptInsert(s) == scripts \cup {s}

CreateScript(c) ==
    /\ RowsInserted < MaxRows
    /\ IF ~ScriptCreateValid(c)
       THEN /\ last' = Outcome("CreateScript", "validation_error", 0)
            /\ UNCHANGED <<tables, next_id>>
       ELSE IF c.project_id \notin Ids(projects)
       THEN /\ last' = Outcome("CreateScript", "integrity_error", 0)
            /\ UNCHANGED <<tables, next_id>>
       ELSE /\ scripts' = ScriptInsert(NewScript(next_id.scripts, c))
            /\ next_id' = [next_id EXCEPT !.scripts = @ + 1]
            /\ last' = Outcome("CreateScript", "ok", next_id.scripts)
            /\ UNCHANGED <<users, topic_suggestions, projects, audio_files,
                           subscriptions, usage_logs>>

ScriptUpdateFields == {"title", "content", "status"}

ScriptUpdateDefaults == [f \in ScriptUpdateFields |-> None]

ScriptUpdateValid(p) ==
    /\ MaxLenOk(p, "title", 200)
    /\ MaxLenOk(p, "content", 50000)
    /\ Has(p, "status") => p.status \in ScriptStatus

UpdateScript(id, p) ==
    IF id \notin Ids(scripts)
    THEN /\ last' = Outcome("UpdateScript", "not_found", 0)
         /\ UNCHANGED <<tables, next_id>>
    ELSE IF ~ScriptUpdateValid(p)
    THEN /\ last' = Outcome("UpdateScript", "validation_error", id)
         /\ UNCHANGED <<tables, next_id>>
    ELSE /\ scripts' = (scripts \ {Row(scripts, id)}) \cup
                       {ApplyPatch(Row(scripts, id),
                                   ShapeObject(ScriptUpdateDefaults, p),
                                   {})}
         /\ last' = Outcome("UpdateScript", "ok", id)
         /\ UNCHANGED <<users, topic_suggestions, projects, audio_files,
                        subscriptions, usage_logs, next_id>>

(***************************************************************************)
(* AudioFile, AudioFileCreate, AudioFileUpdate.                            *)
(***************************************************************************)
AudioFileCreateValid(c) ==
    /\ {"filename", "project_id"} \subseteq DOMAIN c
    /\ Len(c.filename) <= 255
    /\ Has(c, "voice_type") => c.voice_type \in VoiceType

\* the defaults of the AudioFile table's columns
AudioFileDefaults ==
    [file_size_bytes |-> 0, duration_seconds |-> None, status |-> "pending",
     format |-> "mp3", channels |-> 1, voice_type |-> "male_professional",
     voice_speed |-> "1.0", voice_pitch |-> "1.0", is_enhanced |-> FALSE,
     original_file_id |-> None, error_message |-> None, script_id |-> None]

\* the AudioFile row of a validated AudioFileCreate; the file's path is
\* derived from its name
NewAudioFile(id, c) ==
    [id |-> id, filename |-> c.filename, file_path |-> <<"path", c.filename>>,
     file_size_bytes |-> AudioFileDefaults.file_size_bytes,
     duration_seconds |-> AudioFileDefaults.duration_seconds,
     status |-> AudioFileDefaults.status,
     format |-> AudioFileDefaults.format,
     channels |-> AudioFileDefaults.channels,
     voice_type |-> IF Has(c, "voice_type") THEN c.voice_type
                    ELSE AudioFileDefaults.voice_type,
     voice_speed |-> IF Has(c, "voice_speed") THEN c.voice_speed
                     ELSE AudioFileDefaults.voice_speed,
     voice_pitch |-> IF Has(c, "voice_pitch") THEN c.voice_pitch
                     ELSE AudioFileDefaults.voice_pitch,
     is_enhanced |-> AudioFileDefaults.is_enhanced,
     original_file_id |-> AudioFileDefaults.original_file_id,
     error_message |-> AudioFileDefaults.error_message,
     project_id |-> c.project_id,
     script_id |-> IF Has(c, "script_id") THEN Some(c.script_id)
                   ELSE AudioFileDefaults.script_id]

\* foreign keys of an audio_files row: projects.id, scripts.id and
\* audio_files.id; `files` is the table the self-reference resolves in
AudioFileForeignKeys(a, files) ==
    /\ a.project_id \in Ids(projects)
    /\ RefOk(a.script_id, scripts)
    /\ RefOk(a.original_file_id, files)

InsertAudioFile(op, a) ==
    IF AudioFileForeignKeys(a, audio_files \cup {a})
    THEN /\ audio_files' = audio_files \cup {a}
         /\ next_id' = [next_id EXCEPT !.audio_files = @ + 1]
         /\ last' = Outcome(op, "ok", a.id)
         /\ UNCHANGED <<users, topic_suggestions, projects, scripts,
                        subscriptions, usage_logs>>
    ELSE /\ last' = Outcome(op, "integrity_error", 0)
         /\ UNCHANGED <<tables, next_id>>

CreateAudioFile(c) ==
    /\ RowsInserted < MaxRows
    /\ IF AudioFileCreateValid(c)
       THEN InsertAudioFile("CreateAudioFile",
                            NewAudioFile(next_id.audio_files, c))
       ELSE /\ last' = Outcome("CreateAudioFile", "validation_error", 0)
            /\ UNCHANGED <<tables, next_id>>

\* an enhanced version of a stored file: an AudioFile constructed with
\* is_enhanced and original_file_id set, in the original's project
CreateEnhancedVersion(orig, c) ==
    /\ RowsInserted < MaxRows
    /\ InsertAudioFile("CreateEnhancedVersion",
                       [NewAudioFile(next_id.audio_files, c) EXCEPT
                           !.is_enhanced = TRUE,
                           !.original_file_id = Some(orig)])

\* the column original_file_id of a stored file is assigned: the foreign
\* key audio_files.id is the only constraint the column declares
SetOriginalFile(id, orig) ==
    /\ id \in Ids(audio_files)
    /\ IF orig \in Ids(audio_files)
       THEN /\ audio_files' = (audio_files \ {Row(audio_files, id)}) \cup
                    {[Row(audio_files, id) EXCEPT !.original_file_id = Some(orig)]}
            /\ last' = Outcome("SetOriginalFile", "ok", id)
            /\ UNCHANGED <<users, topic_suggestions, projects, scripts,
                           subscriptions, usage_logs, next_id>>
       ELSE /\ last' = Outcome("SetOriginalFile", "integrity_error", id)
            /\ UNCHANGED <<tables, next_id>>

AudioFileUpdateFields == {"status", "duration_seconds", "file_size_bytes",
                          "is_enhanced", "error_message"}

AudioFileUpdateDefaults == [f \in AudioFileUpdateFields |-> None]

AudioFileUpdateValid(p) ==
    /\ Has(p, "status") => p.status \in AudioStatus
    /\ MaxLenOk(p, "error_message", 1000)

UpdateAudioFile(id, p) ==
    IF id \notin Ids(audio_files)
    THEN /\ last' = Outcome("UpdateAudioFile", "not_found", 0)
         /\ UNCHANGED <<tables, next_id>>
    ELSE IF ~AudioFileUpdateValid(p)
    THEN /\ last' = Outcome("UpdateAudioFile", "validation_error", id)
         /\ UNCHANGED <<tables, next_id>>
    ELSE /\ audio_files' = (audio_files \ {Row(audio_files, id)}) \cup
                           {ApplyPatch(Row(audio_files, id),
                                       ShapeObject(AudioFileUpdateDefaults, p),
                                       {"duration_seconds", "error_message"})}
         /\ last' = Outcome("UpdateAudioFile", "ok", id)
         /\ UNCHANGED <<users, topic_suggestions, projects, scripts,
                        subscriptions, usage_logs, next_id>>

(***************************************************************************)
(* Subscription, SubscriptionCreate.                                       *)
(***************************************************************************)
SubscriptionCreateValid(c) ==
    /\ {"user_id", "tier", "price_monthly", "monthly_project_limit",
        "monthly_audio_minutes_limit"} \subseteq DOMAIN c
    /\ c.tier \in UserTier

NewSubscription(id, c) ==
    [id |-> id, tier |-> c.tier, is_active |-> TRUE,
     price_monthly |-> c.price_monthly, currency |-> "USD",
     payment_provider |-> None,
     expires_at |-> IF Has(c, "expires_at") THEN Some(c.expires_at) ELSE None,
     cancelled_at |-> None,
     monthly_project_limit |-> c.monthly_project_limit,
     monthly_audio_minutes_limit |-> c.monthly_audio_minutes_limit,
     user_id |-> c.user_id]

CreateSubscription(c) ==
    /\ RowsInserted < MaxRows
    /\ IF ~SubscriptionCreateValid(c)
       THEN /\ last' = Outcome("CreateSubscription", "validation_error", 0)
            /\ UNCHANGED <<tables, next_id>>
       ELSE IF c.user_id \notin Ids(users)
       THEN /\ last' = Outcome("CreateSubscription", "integrity_error", 0)
            /\ UNCHANGED <<tables, next_id>>
       ELSE /\ subscriptions' = subscriptions \cup
                    {NewSubscription(next_id.subscriptions, c)}
            /\ next_id' = [next_id EXCEPT !.subscriptions = @ + 1]
            /\ last' = Outcome("CreateSubscription", "ok",
                               next_id.subscriptions)
            /\ UNCHANGED <<users, topic_suggestions, projects, scripts,
                           audio_files, usage_logs>>

(***************************************************************************)
(* UsageLog.  There is no transfer shape for it: a row is constructed and  *)
(* added.                                                                  *)
(***************************************************************************)
NewUsageLog(id, l) ==
    [id |-> id, user_id |-> l.user_id, action |-> l.action,
     resource_type |-> l.resource_type,
     resource_id |-> IF Has(l, "resource_id") THEN Some(l.resource_id) ELSE None,
     audio_minutes_used |-> None, credits_used |-> None, log_metadata |-> {}]

\* a usage_logs table that keeps only the latest row of each user
UsageLogInsertLatest(l) ==
    {r \in usage_logs : r.user_id # l.user_id} \cup {l}

\* the usage_logs table after the insert of l
UsageLogInsert(l) == usage_logs \cup {l}

LogUsage(l) ==
    /\ RowsInserted < MaxRows
    /\ IF l.user_id \notin Ids(users)
       THEN /\ last' = Outcome("LogUsage", "integrity_error", 0)
            /\ UNCHANGED <<tables, next_id>>
       ELSE /\ usage_logs' = UsageLogInsert(NewUsageLog(next_id.usage_logs, l))
            /\ next_id' = [next_id EXCEPT !.usage_logs = @ + 1]
            /\ last' = Outcome("LogUsage", "ok", next_id.usage_logs)
            /\ UNCHANGED <<users, topic_suggestions, projects, scripts,
                           audio_files, subscriptions>>

(***************************************************************************)
(* Deletes.  No foreign key declares ON DELETE and no relationship a       *)
(* delete cascade: the children of a deleted row have the referring column *)
(* set to NULL when a relationship covers it, which a NOT NULL column      *)
(* refuses, and a foreign key no relationship covers (usage_logs.user_id)  *)
(* refuses the delete of a referenced row.                                 *)
(***************************************************************************)
\* the rows of `table` with every reference to id in column f set to NULL
Nullify(table, f, id) ==
    {IF r[f] = Some(id) THEN [r EXCEPT ![f] = None] ELSE r : r \in table}

\* a delete that leaves the user's projects behind
UserDeletableOrphaningProjects(id) ==
    /\ \A s \in subscriptions : s.user_id # id
    /\ \A l \in usage_logs : l.user_id # id

\* users.id is referenced by the NOT NULL columns projects.user_id,
\* subscriptions.user_id and usage_logs.user_id
UserDeletable(id) ==
    /\ \A p \in projects : p.user_id # id
    /\ \A s \in subscriptions : s.user_id # id
    /\ \A l \in usage_logs : l.user_id # id

DeleteUser(id) ==
    /\ id \in Ids(users)
    /\ IF UserDeletable(id)
       THEN /\ users' = users \ {Row(users, id)}
            /\ last' = Outcome("DeleteUser", "ok", id)
            /\ UNCHANGED <<topic_suggestions, projects, scripts, audio_files,
                           subscriptions, usage_logs, next_id>>
       ELSE /\ last' = Outcome("DeleteUser", "integrity_error", id)
            /\ UNCHANGED <<tables, next_id>>

\* projects.id is referenced by the NOT NULL columns scripts.project_id and
\* audio_files.project_id
ProjectDeletable(id) ==
    /\ \A s \in scripts : s.project_id # id
    /\ \A a \in audio_files : a.project_id # id

DeleteProject(id) ==
    /\ id \in Ids(projects)
    /\ IF ProjectDeletable(id)
       THEN /\ projects' = projects \ {Row(projects, id)}
            /\ last' = Outcome("DeleteProject", "ok", id)
            /\ UNCHANGED <<users, topic_suggestions, scripts, audio_files,
                           subscriptions, usage_logs, next_id>>
       ELSE /\ last' = Outcome("DeleteProject", "integrity_error", id)
            /\ UNCHANGED <<tables, next_id>>

\* scripts.id is referenced by the nullable column audio_files.script_id
DeleteScript(id) ==
    /\ id \in Ids(scripts)
    /\ scripts' = scripts \ {Row(scripts, id)}
    /\ audio_files' = Nullify(audio_files, "script_id", id)
    /\ last' = Outcome("DeleteScript", "ok", id)
    /\ UNCHANGED <<users, topic_suggestions, projects, subscriptions,
                   usage_logs, next_id>>

\* audio_files.id is referenced by the nullable column
\* audio_files.original_file_id
DeleteAudioFile(id) ==
    /\ id \in Ids(audio_files)
    /\ audio_files' = Nullify(audio_files \ {Row(audio_files, id)},
                              "original_file_id", id)
    /\ last' = Outcome("DeleteAudioFile", "ok", id)
    /\ UNCHANGED <<users, topic_suggestions, projects, scripts, subscriptions,
                   usage_logs, next_id>>

\* topic_suggestions.id is referenced by the nullable column
\* projects.topic_suggestion_id
DeleteTopicSuggestion(id) ==
    /\ id \in Ids(topic_suggestions)
    /\ topic_suggestions' = topic_suggestions \ {Row(topic_suggestions, id)}
    /\ projects' = Nullify(projects, "topic_suggestion_id", id)
    /\ last' = Outcome("DeleteTopicSuggestion", "ok", id)
    /\ UNCHANGED <<users, scripts, audio_files, subscriptions, usage_logs,
                   next_id>>

DeleteSubscription(id) ==
    /\ id \in Ids(subscriptions)
    /\ subscriptions' = subscriptions \ {Row(subscriptions, id)}
    /\ last' = Outcome("DeleteSubscription", "ok", id)
    /\ UNCHANGED <<users, topic_suggestions, projects, scripts, audio_files,
                   usage_logs, next_id>>

Init ==
    /\ users = {}
    /\ topic_suggestions = {}
    /\ projects = {}
    /\ scripts = {}
    /\ audio_files = {}
    /\ subscriptions = {}
    /\ usage_logs = {}
    /\ next_id = [users |-> 1, topic_suggestions |-> 1, projects |-> 1,
                  scripts |-> 1, audio_files |-> 1, subscriptions |-> 1,
                  usage_logs |-> 1]
    /\ last = Outcome("init", "ok", 0)

\* the primary keys a request may name
Keys == 1..MaxRows

(***************************************************************************)
(* The user scenario: registration, direct construction and update of      *)
(* users.                                                                  *)
(***************************************************************************)
GoodEmails == {<<"a", "@", "b", ".", "c">>,
               <<"b", "+", "9", "@", "b", "-", "A", ".", "c", ".", "d">>}

BadEmails == {<<"a", "b", ".", "c">>,
              <<"a", "@", "b", "c">>,
              <<"@", "b", ".", "c">>,
              <<"a", "@", ".", "c">>,
              <<"a", "@", "b", ".">>,
              <<"a", " ", "@", "b", ".", "c">>}

UserCreateInputs ==
    {[email |-> e, username |-> n, full_name |-> "Ann Lee",
      password |-> "correct horse"] :
        e \in GoodEmails, n \in {"ann", "bob"}}
    \cup {[email |-> e, username |-> "ann", full_name |-> "Ann Lee",
           password |-> "correct horse"] : e \in BadEmails}
    \cup {[email |-> <<"a", "@", "b", ".", "c">>, username |-> "ann",
           full_name |-> "Ann Lee", password |-> "short"],
          [email |-> <<"a", "@", "b", ".", "c">>, username |-> "ann",
           password |-> "correct horse"]}

UserEntityInputs ==
    {[email |-> e, username |-> n, full_name |-> "Cat",
      password_hash |-> <<"hash", "correct horse">>] :
        e \in {<<"a", "@", "b", ".", "c">>, <<"a", "b", ".", "c">>},
        n \in {"ann", "cat"}}

UserUpdateInputs ==
    {[full_name |-> "Ann B. Lee", email |-> <<"a", "@", "b", ".", "c">>,
      username |-> "ann"],
     [default_voice_type |-> "robot"]}

NextUsers ==
    \/ \E c \in UserCreateInputs : CreateUser(c)
    \/ \E c \in UserEntityInputs : ConstructUser(c)
    \/ \E id \in Keys, p \in UserUpdateInputs : UpdateUser(id, p)

SpecUsers == Init /\ [][NextUsers]_vars

(***************************************************************************)
(* The create scenario: the Create shapes of user, project, script and     *)
(* audio file.                                                             *)
(***************************************************************************)
OneUserCreate ==
    [email |-> <<"a", "@", "b", ".", "c">>, username |-> "ann",
     full_name |-> "Ann Lee", password |-> "correct horse"]

ProjectCreateInputs ==
    {[title |-> "Episode 1", category |-> "tech", tags |-> <<"tech", "ai">>],
     [title |-> "Episode 2", category |-> "news", description |-> "weekly",
      target_duration_minutes |-> 30, voice_type |-> "narrator"],
     [title |-> "Episode 3"],
     [title |-> "Episode 4", category |-> "tech", voice_type |-> "robot"]}

ScriptCreateInputs ==
    {[title |-> "Script", content |-> "Hello", project_id |-> pid] :
        pid \in 1..2}
    \cup {[title |-> "Script", content |-> "Hello", project_id |-> 1,
           ai_prompt |-> "intro"],
          [title |-> "Script", project_id |-> 1]}

AudioFileCreateInputs ==
    {[filename |-> "ep1.mp3", project_id |-> 1],
     [filename |-> "ep1.mp3", project_id |-> 1, script_id |-> 1,
      voice_type |-> "narrator"],
     [filename |-> "ep1.mp3", project_id |-> 2],
     [filename |-> "ep1.mp3"]}

NextCreate ==
    \/ CreateUser(OneUserCreate)
    \/ \E uid \in 1..2, c \in ProjectCreateInputs : CreateProject(uid, c)
    \/ \E c \in ScriptCreateInputs : CreateScript(c)
    \/ \E c \in AudioFileCreateInputs : CreateAudioFile(c)

SpecCreate == Init /\ [][NextCreate]_vars

(***************************************************************************)
(* The patch scenario: one request of each Create shape, and the Update    *)
(* shapes of user, project, script and audio file.                         *)
(***************************************************************************)
\* the rows the patches are addressed to
PatchedKeys == {1}

OneProjectCreate ==
    [title |-> "Episode 1", category |-> "tech", tags |-> <<"tech", "ai">>]

OneScriptCreate == [title |-> "Script", content |-> "Hello", project_id |-> 1]

OneAudioFileCreate == [filename |-> "ep1.mp3", project_id |-> 1]

UserPatches ==
    {<<>>,
     [full_name |-> "Ann B. Lee"],
     [default_voice_type |-> "narrator", preferences |-> {<<"theme", "dark">>}]}

ProjectPatches ==
    {<<>>,
     [status |-> "script_ready"],
     [title |-> "Retitled", description |-> "edited", category |-> "science"],
     [tags |-> <<"science">>, target_duration_minutes |-> 45,
      voice_type |-> "female_casual"]}

ScriptPatches ==
    {<<>>,
     [status |-> "final"],
     [title |-> "Script v2", content |-> "Hello again"]}

AudioFilePatches ==
    {<<>>,
     [status |-> "failed", error_message |-> "synthesis failed"],
     [duration_seconds |-> "61.5", file_size_bytes |-> 2048, is_enhanced |-> TRUE]}

NextPatch ==
    \/ CreateUser(OneUserCreate)
    \/ CreateProject(1, OneProjectCreate)
    \/ CreateScript(OneScriptCreate)
    \/ CreateAudioFile(OneAudioFileCreate)
    \/ \E id \in PatchedKeys, p \in UserPatches : UpdateUser(id, p)
    \/ \E id \in PatchedKeys, p \in ProjectPatches : UpdateProject(id, p)
    \/ \E id \in PatchedKeys, p \in ScriptPatches : UpdateScript(id, p)
    \/ \E id \in PatchedKeys, p \in AudioFilePatches : UpdateAudioFile(id, p)

SpecPatch == Init /\ [][NextPatch]_vars

(***************************************************************************)
(* The status scenario: projects and ProjectUpdate requests that carry a   *)
(* status.                                                                 *)
(***************************************************************************)
StatusPatches == {[status |-> s] : s \in ProjectStatus \cup {"archived"}}

NextStatus ==
    \/ CreateUser(OneUserCreate)
    \/ CreateProject(1, OneProjectCreate)
    \/ \E id \in Keys, p \in StatusPatches : UpdateProject(id, p)

SpecStatus == Init /\ [][NextStatus]_vars

(***************************************************************************)
(* The audio scenario: audio files, their enhanced versions and the        *)
(* original_file_id column.                                                *)
(***************************************************************************)
NextAudio ==
    \/ CreateUser(OneUserCreate)
    \/ CreateProject(1, OneProjectCreate)
    \/ CreateAudioFile(OneAudioFileCreate)
    \/ \E orig \in Keys : CreateEnhancedVersion(orig, OneAudioFileCreate)
    \/ \E id \in Keys, orig \in Keys : SetOriginalFile(id, orig)
    \/ \E id \in Keys : UpdateAudioFile(id, [status |-> "completed"])
    \/ \E id \in Keys : DeleteAudioFile(id)

SpecAudio == Init /\ [][NextAudio]_vars

(***************************************************************************)
(* The catalog scenario: create, update and delete over every table.       *)
(***************************************************************************)
CatalogUserCreates ==
    {OneUserCreate,
     [email |-> <<"b", "+", "9", "@", "b", "-", "A", ".", "c", ".", "d">>,
      username |-> "bob", full_name |-> "Bob Ray", password |-> "correct horse"]}

OneTopicSuggestionCreate ==
    [title |-> "AI news", description |-> "weekly AI news", category |-> "tech"]

NextCatalog ==
    \/ \E c \in CatalogUserCreates : CreateUser(c)
    \/ CreateTopicSuggestion(OneTopicSuggestionCreate)
    \/ \E uid \in 1..2 : CreateProject(uid, OneProjectCreate)
    \/ \E uid \in 1..2 :
          CreateProject(uid, [title |-> "Episode 2", category |-> "tech",
                              topic_suggestion_id |-> 1])
    \/ \E pid \in 1..2 :
          CreateScript([title |-> "Script", content |-> "Hello",
                        project_id |-> pid])
    \/ \E pid \in 1..2 :
          CreateAudioFile([filename |-> "ep1.mp3", project_id |-> pid,
                           script_id |-> 1])
    \/ \E uid \in 1..2 :
          CreateSubscription([user_id |-> uid, tier |-> "premium",
                              price_monthly |-> "19.99",
                              monthly_project_limit |-> 50,
                              monthly_audio_minutes_limit |-> "600"])
    \/ \E uid \in 1..2 :
          LogUsage([user_id |-> uid, action |-> "project_created",
                    resource_type |-> "project", resource_id |-> 1])
    \/ \E id \in Keys : UpdateUser(id, [full_name |-> "Ann B. Lee"])
    \/ \E id \in Keys : UpdateProject(id, [status |-> "script_ready"])
    \/ \E id \in Keys : UpdateScript(id, [status |-> "final"])
    \/ \E id \in Keys : UpdateAudioFile(id, [status |-> "completed"])
    \/ \E id \in Keys : DeleteUser(id)
    \/ \E id \in Keys : DeleteTopicSuggestion(id)
    \/ \E id \in Keys : DeleteProject(id)
    \/ \E id \in Keys : DeleteScript(id)
    \/ \E id \in Keys : DeleteAudioFile(id)
    \/ \E id \in Keys : DeleteSubscription(id)

SpecCatalog == Init /\ [][NextCatalog]_vars

(***************************************************************************)
(* Properties.                                                             *)
(***************************************************************************)

\* the frame of a patch p applied to row id of a table: the other rows are
\* the same, every field of the row that p omits has its stored value, and
\* a patch that omits every field changes nothing
PatchFrame(old, new, id, p) ==
    /\ Ids(new) = Ids(old)
    /\ \A r \in old : r.id # id => r \in new
    /\ \A f \in (DOMAIN Row(old, id)) \ (DOMAIN p) :
           Row(new, id)[f] = Row(old, id)[f]
    /\ DOMAIN p = {} => new = old

\* C1: for each of UserUpdate, ProjectUpdate, ScriptUpdate and
\* AudioFileUpdate and every stored row, applying a patch changes only the
\* fields the patch carries: every omitted field keeps its stored value and
\* the all-omitted patch leaves the row unchanged.
C1_PatchChangesOnlyGivenFields ==
    [][/\ \A id \in Ids(users), p \in UserPatches :
             UpdateUser(id, p) => PatchFrame(users, users', id, p)
       /\ \A id \in Ids(projects), p \in ProjectPatches :
             UpdateProject(id, p) => PatchFrame(projects, projects', id, p)
       /\ \A id \in Ids(scripts), p \in ScriptPatches :
             UpdateScript(id, p) => PatchFrame(scripts, scripts', id, p)
       /\ \A id \in Ids(audio_files), p \in AudioFilePatches :
             UpdateAudioFile(id, p)
                 => PatchFrame(audio_files, audio_files', id, p)]_vars

\* a project patched to script_ready (and retitled or not) still has the
\* tags and category it was created with, beside patched rows of the other
\* three tables
C1_Witness ==
    /\ last.op = "UpdateProject"
    /\ last.result = "ok"
    /\ Row(projects, last.id).status = "script_ready"
    /\ Row(projects, last.id).title = "Episode 1"
    /\ Row(projects, last.id).tags = <<"tech", "ai">>
    /\ Row(projects, last.id).category = "tech"
    /\ \E u \in users : u.full_name = "Ann B. Lee"
                        /\ u.default_voice_type = "male_professional"
    /\ \E s \in scripts : s.status = "final" /\ s.title = "Script"

UniqueUsers(table) ==
    \A u1 \in table, u2 \in table :
        u1 # u2 => u1.email # u2.email /\ u1.username # u2.username

Duplicate(c) ==
    \E r \in users : r.email = c.email \/ r.username = c.username

\* C2: no two stored users share an email or a username; an attempt to
\* store a user whose email or username is that of a stored user is
\* rejected and leaves the stored users unchanged.
C2_EmailAndUsernameUnique ==
    [][/\ UniqueUsers(users')
       /\ \A c \in UserCreateInputs :
             CreateUser(c) /\ UserCreateValid(c) /\ Duplicate(c)
                 => users' = users /\ last'.result = "integrity_error"
       /\ \A c \in UserEntityInputs :
             ConstructUser(c) /\ Duplicate(c)
                 => users' = users /\ last'.result = "integrity_error"]_vars

C2_Witness ==
    /\ last.op = "CreateUser"
    /\ last.result = "integrity_error"
    /\ Cardinality(users) = 2

\* the shape local@domain.tld: a non-empty local part, '@', a non-empty
\* domain label, '.', a non-empty tld
EmailShape(e) ==
    \E i \in 1..Len(e), j \in 1..Len(e) :
        /\ e[i] = "@"
        /\ e[j] = "."
        /\ i > 1
        /\ j > i + 1
        /\ j < Len(e)

\* C3: every construction of a User (the entity, and likewise UserCreate)
\* with an email that does not have the shape local@domain.tld is rejected
\* and creates no user: no stored user has such an email.
C3_ShapelessEmailRejected ==
    \A u \in users : EmailShape(u.email)

\* the part of C3 that is about UserCreate: a registration whose email does
\* not have the shape ends in a validation error and stores nothing
C3_UserCreateRejectsShapelessEmail ==
    [][\A c \in UserCreateInputs :
          CreateUser(c) /\ UserCreateRequired \subseteq DOMAIN c
                        /\ ~EmailShape(c.email)
              => users' = users /\ last'.result = "validation_error"]_vars

\* C4: setting an audio file's original_file_id to the file's own id is
\* rejected: no stored audio file is its own original.
C4_NoSelfReference ==
    \A a \in audio_files : a.original_file_id # Some(a.id)

\* the file reached from file id by following original_file_id k times, 0
\* when the chain ends before
RECURSIVE Original(_, _)
Original(id, k) ==
    IF k = 0 \/ id = 0 THEN id
    ELSE IF id \notin Ids(audio_files) THEN 0
    ELSE IF Row(audio_files, id).original_file_id = None THEN 0
    ELSE Original(Row(audio_files, id).original_file_id[1], k - 1)

\* C5: the original_file_id references form a forest: following
\* original_file_id from a file never returns to it through a chain of two
\* or more files.
C5_NoCycle ==
    \A a \in audio_files :
        \A k \in 2..MaxRows :
            ~(Original(a.id, k) = a.id /\ Original(a.id, 1) # a.id)

\* C6: every required foreign key resolves: a project's user_id is a stored
\* user, a script's and an audio file's project_id a stored project, a
\* subscription's and a usage log's user_id a stored user.
C6_RequiredForeignKeysResolve ==
    /\ \A p \in projects : p.user_id \in Ids(users)
    /\ \A s \in scripts : s.project_id \in Ids(projects)
    /\ \A a \in audio_files : a.project_id \in Ids(projects)
    /\ \A s \in subscriptions : s.user_id \in Ids(users)
    /\ \A l \in usage_logs : l.user_id \in Ids(users)

\* the delete of a user who owns a project, and nothing else, was refused,
\* with a script and an audio file stored under the project
C6_Witness ==
    /\ last.op = "DeleteUser"
    /\ last.result = "integrity_error"
    /\ \E p \in projects : p.user_id = last.id
    /\ \A s \in subscriptions : s.user_id # last.id
    /\ \A l \in usage_logs : l.user_id # last.id
    /\ scripts # {}
    /\ audio_files # {}

\* C7: a ProjectUpdate that sets status to any of the five values is
\* accepted on a project of any status and stores that value, also against
\* the order draft, script_ready, audio_generated, enhanced, published; the
\* stored status is always one of the five.
C7_AnyStatusAnyTime ==
    [][/\ \A id \in Ids(projects), s \in ProjectStatus :
             UpdateProject(id, [status |-> s])
                 => /\ last'.result = "ok"
                    /\ Row(projects', id).status = s
       /\ \A p \in projects' : p.status \in ProjectStatus]_vars

\* a published project whose last update was accepted and that the next
\* update may reopen as a draft
C7_Witness ==
    /\ last.op = "UpdateProject"
    /\ last.result = "ok"
    /\ Row(projects, last.id).status = "published"
    /\ ENABLED (/\ UpdateProject(last.id, [status |-> "draft"])
                /\ last'.result = "ok"
                /\ Row(projects', last.id).status = "draft")

\* C8: a row created from a Create shape that lacks a field starts with the
\* declared default of the field: a new project has status draft, and
\* voice_type male_professional when ProjectCreate carries none; a new
\* script has status draft, a new audio file status pending, a new user
\* tier free.
C8_DefaultsFilled ==
    [][/\ \A uid \in 1..2, c \in ProjectCreateInputs :
             CreateProject(uid, c) /\ last'.result = "ok"
                 => /\ Row(projects', last'.id).status = "draft"
                    /\ ~Has(c, "voice_type")
                           => Row(projects', last'.id).voice_type
                                  = "male_professional"
       /\ \A c \in ScriptCreateInputs :
             CreateScript(c) /\ last'.result = "ok"
                 => Row(scripts', last'.id).status = "draft"
       /\ \A c \in AudioFileCreateInputs :
             CreateAudioFile(c) /\ last'.result = "ok"
                 => Row(audio_files', last'.id).status = "pending"
       /\ CreateUser(OneUserCreate) /\ last'.result = "ok"
             => Row(users', last'.id).tier = "free"]_vars

\* a project created with tags and no topic suggestion, at its defaults
C8_Witness ==
    /\ last.op = "CreateProject"
    /\ last.result = "ok"
    /\ Row(projects, last.id).tags = <<"tech", "ai">>
    /\ Row(projects, last.id).topic_suggestion_id = None
    /\ Row(projects, last.id).status = "draft"
    /\ Row(projects, last.id).voice_type = "male_professional"

C10_SecondCurrentScriptAccepted ==
    [][\A c \in ScriptCreateInputs :
          /\ CreateScript(c)
          /\ ScriptCreateValid(c)
          /\ \E s \in scripts : s.project_id = c.project_id
          => /\ last'.result = "ok"
             /\ Row(scripts', last'.id).is_current = TRUE
             /\ Row(scripts', last'.id).version = 1
             /\ Row(scripts', last'.id).project_id = c.project_id
             /\ last'.id \notin Ids(scripts)
             /\ \A s \in scripts : s \in scripts']_vars

C10_Witness ==
    /\ last.op = "CreateScript"
    /\ last.result = "ok"
    /\ \E s1 \in scripts, s2 \in scripts :
          /\ s1.id # s2.id
          /\ s1.project_id = s2.project_id
          /\ s1.is_current /\ s2.is_current
          /\ s1.version = 1 /\ s2.version = 1

====
